---- MODULE Spec2Model ----
(***************************************************************************)
(* Model of run.py, the plugincompat test orchestrator.                    *)
(*                                                                         *)
(* main() submits one process_package job per plugin of the index to a     *)
(* thread pool, drains the completed futures, builds test_results and      *)
(* prints the summary.  process_package() is the per-plugin pipeline:      *)
(* skip check, package index query, download under _urlretrieve_lock,      *)
(* extract, run_tox on an inner single-thread executor with a five minute  *)
(* wait, classification.                                                   *)
(*                                                                         *)
(* Job j is the future main() creates for plugins[j].  Each blocking call  *)
(* of the pipeline is one action; what the outside world answers (HTTP     *)
(* status, release urls, exit code, an exception) is chosen by \E.         *)
(*                                                                         *)
(* Time is a wall clock read by time.time(), observed at the granularity   *)
(* of one timeout period.  The pool size is 8 in main(); the model ranges  *)
(* over pool sizes 1..MaxWorkers so that the cap binds with few plugins.   *)
(***************************************************************************)
EXTENDS Integers, Sequences, FiniteSets

\* ---- bounds of the model ----
MaxPlugins == 2      \* longest plugin index
MaxWorkers == 2      \* largest pool size
MaxTicks == 2        \* clock ticks of one timeout period each
MaxUrls == 2         \* longest list returned by client.release_urls

\* ---- program constants ----
Timeout == 5 * 60    \* f.result(timeout=5 * 60), seconds

\* exit codes of the tox subprocess
ReturnCodes == {0, 1}
\* HTTP status codes of the skip check
StatusCodes == {200, 404}
\* HTTP status codes of the report submission
PostCodes == {200, 500}

\* (name, version) of the plugins of the index; names and versions are
\* ordered like the strings they stand for
Keys == {<<1, 2>>, <<2, 1>>}
PluginIndexes == UNION {[1..n -> Keys] : n \in 1..MaxPlugins}

\* url_data records of the package index: packagetype and the archive
\* suffix of os.path.basename(url)
UrlData == {[packagetype |-> "sdist", ext |-> ".tar.gz"],
            [packagetype |-> "sdist", ext |-> ".tar.bz2"],
            [packagetype |-> "bdist_wheel", ext |-> ".whl"]}
ReleaseUrls == UNION {[1..n -> UrlData] : n \in 0..MaxUrls}

\* suffixes extract() knows
extractors == {".zip", ".tar.gz", ".tgz"}

VARIABLES
    plugins,        \* the plugin index read by read_plugins_index
    site,           \* os.environ.get('PLUGINCOMPAT_SITE') is set
    max_workers,    \* size of main's ThreadPoolExecutor
    now,            \* time.time()
    submitted,      \* len(fs): futures submitted by main
    pc,             \* position of each job in process_package
    frame,          \* process_package: start, basename, end of the f.result wait
    locked,         \* _urlretrieve_lock is held
    lock_owner,     \* the job that entered the with block of the lock (0: none)
    exception,      \* the call whose exception the job's future holds, if any
    toxf,           \* process_package: f, the future of run_tox
    result,         \* the PackageResult of the job's future, if any
    skip_status,    \* status code the skip check returned (0: none)
    index_sdist,    \* what the index returned: "yes" (an sdist), "empty",
                    \* "others" (artifacts, none an sdist)
    timed_out,      \* jobs whose f.result raised TimeoutError
    downloads,      \* urlretrieve calls made by the job
    tox_runs,       \* run_tox invocations started for the job
    mainpc,         \* position of main
    consumed,       \* futures as_completed has yielded
    test_results,   \* main: test_results
    summary,        \* what main printed after the loop
    post_status,    \* status code of the response to requests.post (0: none)
    exit_code       \* the argument of sys.exit, once main has returned

vars == <<plugins, site, max_workers, now, submitted, pc, frame, locked,
          lock_owner, exception, toxf, result, skip_status, index_sdist,
          timed_out, downloads, tox_runs, mainpc, consumed, test_results,
          summary, post_status, exit_code>>

Jobs == 1..Len(plugins)

\* ---- values ----
\* a status_code is an int or the string 'error'
PyInt(n) == [type |-> "int", val |-> n]
PyError == [type |-> "str", val |-> 0]
\* status_code == 0
IsZero(status_code) == status_code.type = "int" /\ status_code.val = 0

PackageResult(name, version, status_code, status, output, elapsed) ==
    [name |-> name, version |-> version, status_code |-> status_code,
     status |-> status, output |-> output, elapsed |-> elapsed]

NoFuture == [state |-> "NONE", code |-> 0, raised |-> FALSE]

\* ---- helpers of process_package ----
\* the locals of a process_package call; they are gone when it returns
NoFrame == [start |-> 0, deadline |-> 0, basename |-> "None"]

get_elapsed(j) == now - frame[j].start

Min(S) == CHOOSE x \in S : \A y \in S : x <= y

\* download_package, the loop: the basename of the first sdist, or None
download_package_any(urls) ==
    IF Len(urls) = 0 THEN "None" ELSE urls[1].ext
download_package(urls) ==
    LET sdist == {i \in DOMAIN urls : urls[i].packagetype = "sdist"}
    IN  IF sdist = {} THEN "None" ELSE urls[Min(sdist)].ext

HasSdist(urls) == \E i \in DOMAIN urls : urls[i].packagetype = "sdist"

\* Future.cancel(): only a future that has not started is cancelled
cancel(f) ==
    IF f.state = "PENDING" THEN [f EXCEPT !.state = "CANCELLED"] ELSE f

\* lines 169-171: append the time, label by status_code == 0
Classify_NotError(j, status_code, output) ==
    PackageResult(plugins[j][1], plugins[j][2], status_code,
                  IF status_code.type = "int" THEN "PASSED" ELSE "FAILED",
                  output \o <<"Time">>, get_elapsed(j))
Classify(j, status_code, output) ==
    PackageResult(plugins[j][1], plugins[j][2], status_code,
                  IF IsZero(status_code) THEN "PASSED" ELSE "FAILED",
                  output \o <<"Time">>, get_elapsed(j))

\* process_package returns r: the job's future holds the result
Return(j, r) ==
    /\ result' = [result EXCEPT ![j] = <<r>>]
    /\ pc' = [pc EXCEPT ![j] = "done"]
    /\ frame' = [frame EXCEPT ![j] = NoFrame]

\* an exception leaves process_package: the job's future holds the exception
Raise(j, call) ==
    /\ pc' = [pc EXCEPT ![j] = "raised"]
    /\ exception' = [exception EXCEPT ![j] = call]
    /\ frame' = [frame EXCEPT ![j] = NoFrame]
    /\ UNCHANGED result

\* the directories a job is writing into: urlretrieve stores basename in the
\* current directory, extractall('.') unpacks into it, and extract and run_tox
\* write the directory named after the archive; working_dir('.work') makes
\* '.work' the current directory of the whole process
cwd == [base |-> ".work", sub |-> <<>>]
directory(j) == [base |-> ".work", sub |-> <<plugins[j][1], plugins[j][2]>>]
WriteDirs(j) ==
    (IF pc[j] \in {"urlretrieve", "extract"} THEN {cwd} ELSE {})
    \cup (IF pc[j] = "extract" \/ toxf[j].state = "RUNNING"
          THEN {directory(j)} ELSE {})

InFlight(j) ==
    pc[j] \in {"skip_check", "query", "lock_wait", "urlretrieve", "extract",
               "tox_wait"}

\* ---- initial state ----
Init ==
    /\ plugins \in PluginIndexes
    /\ site \in BOOLEAN
    /\ max_workers \in 1..MaxWorkers
    /\ now = 0
    /\ submitted = 0
    /\ pc = [j \in Jobs |-> "unsubmitted"]
    /\ frame = [j \in Jobs |-> NoFrame]
    /\ locked = FALSE
    /\ lock_owner = 0
    /\ exception = [j \in Jobs |-> "none"]
    /\ toxf = [j \in Jobs |-> NoFuture]
    /\ result = [j \in Jobs |-> <<>>]
    /\ skip_status = [j \in Jobs |-> 0]
    /\ index_sdist = [j \in Jobs |-> "unknown"]
    /\ timed_out = {}
    /\ downloads = [j \in Jobs |-> 0]
    /\ tox_runs = [j \in Jobs |-> 0]
    /\ mainpc = "submit"
    /\ consumed = {}
    /\ test_results = <<>>
    /\ summary = <<>>
    /\ post_status = 0
    /\ exit_code = <<>>

MainVars == <<mainpc, consumed, test_results, summary, post_status, exit_code>>
Exit == <<post_status, exit_code>>
Params == <<plugins, site, max_workers>>
Ghosts == <<skip_status, index_sdist, timed_out, downloads, tox_runs>>

\* ---- main: submit ----
\* executor.submit(process_package, ...) for the next plugin
Submit ==
    /\ mainpc = "submit"
    /\ submitted < Len(plugins)
    /\ submitted' = submitted + 1
    /\ pc' = [pc EXCEPT ![submitted + 1] = "queued"]
    /\ mainpc' = IF submitted + 1 = Len(plugins) THEN "as_completed" ELSE "submit"
    /\ UNCHANGED <<Params, now, frame, locked, toxf, result, Ghosts, Exit, exception, lock_owner,
                   consumed, test_results, summary>>

\* ---- process_package ----
\* a free worker of the pool takes the oldest queued job: start = time.time()
Start(j) ==
    /\ pc[j] = "queued"
    /\ \A i \in Jobs : i < j => pc[i] # "queued"
    /\ Cardinality({i \in Jobs : InFlight(i)}) < max_workers
    /\ frame' = [frame EXCEPT ![j].start = now]
    /\ pc' = [pc EXCEPT ![j] = IF site THEN "skip_check" ELSE "query"]
    /\ UNCHANGED <<Params, now, submitted, locked, toxf, result, Ghosts,
                   MainVars,
                   lock_owner, exception>>

\* requests.get returns a response: 200 short-circuits to SKIPPED
SkipCheck_Ignore(j) ==
    /\ pc[j] = "skip_check"
    /\ \E status_code \in StatusCodes :
        skip_status' = [skip_status EXCEPT ![j] = status_code]
    /\ pc' = [pc EXCEPT ![j] = "query"]
    /\ UNCHANGED <<Params, now, submitted, frame, locked, toxf, result,
                   index_sdist, timed_out, downloads, tox_runs, MainVars,
                   lock_owner, exception>>
SkipCheck(j) ==
    /\ pc[j] = "skip_check"
    /\ \E status_code \in StatusCodes :
        /\ skip_status' = [skip_status EXCEPT ![j] = status_code]
        /\ IF status_code = 200
           THEN Return(j, PackageResult(plugins[j][1], plugins[j][2], PyInt(0),
                                        "SKIPPED", <<"Skipped">>, get_elapsed(j)))
           ELSE /\ pc' = [pc EXCEPT ![j] = "query"]
                /\ UNCHANGED <<result, frame>>
    /\ UNCHANGED <<Params, now, submitted, locked, toxf, index_sdist, timed_out,
                   downloads, tox_runs, MainVars,
                   lock_owner, exception>>

\* client.release_urls returns; download_package picks the sdist or the
\* job returns NO SOURCE
QueryIndex(j) ==
    /\ pc[j] = "query"
    /\ \E urls \in ReleaseUrls :
        LET b == download_package(urls) IN
        /\ index_sdist' = [index_sdist EXCEPT ![j] =
                              IF HasSdist(urls) THEN "yes"
                              ELSE IF Len(urls) = 0 THEN "empty" ELSE "others"]
        /\ IF b = "None"
           THEN Return(j, PackageResult(plugins[j][1], plugins[j][2], PyInt(1),
                                        "NO SOURCE", <<"No sdist found">>,
                                        get_elapsed(j)))
           ELSE /\ pc' = [pc EXCEPT ![j] = "lock_wait"]
                /\ frame' = [frame EXCEPT ![j].basename = b]
                /\ UNCHANGED result
    /\ UNCHANGED <<Params, now, submitted, locked, toxf, skip_status, timed_out,
                   downloads, tox_runs, MainVars,
                   lock_owner, exception>>

\* with _urlretrieve_lock: entered once the lock is free
AcquireLock_NoWait(j) ==
    /\ pc[j] = "lock_wait"
    /\ locked' = TRUE
    /\ lock_owner' = j
    /\ downloads' = [downloads EXCEPT ![j] = @ + 1]
    /\ pc' = [pc EXCEPT ![j] = "urlretrieve"]
    /\ UNCHANGED <<Params, now, submitted, frame, toxf, result, skip_status,
                   index_sdist, timed_out, tox_runs, MainVars,
                   exception>>
AcquireLock(j) ==
    /\ pc[j] = "lock_wait"
    /\ ~locked
    /\ locked' = TRUE
    /\ lock_owner' = j
    /\ downloads' = [downloads EXCEPT ![j] = @ + 1]
    /\ pc' = [pc EXCEPT ![j] = "urlretrieve"]
    /\ UNCHANGED <<Params, now, submitted, frame, toxf, result, skip_status,
                   index_sdist, timed_out, tox_runs, MainVars,
                   exception>>

\* urlretrieve returns; the with block releases the lock
Urlretrieve_Again(j) ==
    /\ pc[j] = "urlretrieve"
    /\ locked' = FALSE
    /\ lock_owner' = 0
    /\ pc' = [pc EXCEPT ![j] = IF downloads[j] < 2 THEN "lock_wait" ELSE "extract"]
    /\ UNCHANGED <<Params, now, submitted, frame, toxf, result, Ghosts,
                   MainVars, exception>>
Urlretrieve_HoldLock(j) ==
    /\ pc[j] = "urlretrieve"
    /\ pc' = [pc EXCEPT ![j] = "extract"]
    /\ UNCHANGED <<Params, now, submitted, frame, toxf, result, Ghosts,
                   MainVars, exception, locked, lock_owner>>
Urlretrieve(j) ==
    /\ pc[j] = "urlretrieve"
    /\ locked' = FALSE
    /\ lock_owner' = 0
    /\ pc' = [pc EXCEPT ![j] = "extract"]
    /\ UNCHANGED <<Params, now, submitted, frame, toxf, result, Ghosts,
                   MainVars,
                   exception>>

\* extract(basename), then executor.submit(run_tox, ...) and f.result(timeout);
\* an unknown suffix fails the assertion of extract
Extract(j) ==
    /\ pc[j] = "extract"
    /\ IF frame[j].basename \in extractors
       THEN /\ toxf' = [toxf EXCEPT ![j] = [NoFuture EXCEPT !.state = "PENDING"]]
            /\ frame' = [frame EXCEPT ![j].deadline = now + Timeout]
            /\ pc' = [pc EXCEPT ![j] = "tox_wait"]
            /\ UNCHANGED <<result, exception>>
       ELSE /\ Raise(j, "extract")
            /\ UNCHANGED toxf
    /\ UNCHANGED <<Params, now, submitted, locked, Ghosts, MainVars,
                   lock_owner>>

\* requests.get, the index query, urlretrieve or the extractor raises: nothing
\* in process_package catches it; the with block releases the lock
PipelineRaises_KeepLock(j) ==
    /\ pc[j] \in {"skip_check", "query", "urlretrieve", "extract"}
    /\ Raise(j, pc[j])
    /\ UNCHANGED <<Params, now, submitted, toxf, Ghosts, MainVars, locked,
                   lock_owner>>
PipelineRaises(j) ==
    /\ pc[j] \in {"skip_check", "query", "urlretrieve", "extract"}
    /\ locked' = IF pc[j] = "urlretrieve" THEN FALSE ELSE locked
    /\ lock_owner' = IF pc[j] = "urlretrieve" THEN 0 ELSE lock_owner
    /\ Raise(j, pc[j])
    /\ UNCHANGED <<Params, now, submitted, toxf, Ghosts, MainVars>>

\* ---- run_tox on the inner executor ----
\* the inner worker thread takes the work item and calls run_tox
ToxStart(j) ==
    /\ toxf[j].state = "PENDING"
    /\ toxf' = [toxf EXCEPT ![j].state = "RUNNING"]
    /\ tox_runs' = [tox_runs EXCEPT ![j] = @ + 1]
    /\ UNCHANGED <<Params, now, submitted, pc, frame, locked, result,
                   skip_status, index_sdist, timed_out, downloads, MainVars,
                   lock_owner, exception>>

\* run_tox returns (exit code, output) or raises
ToxFinish_Overwrite(j) ==
    /\ toxf[j].state = "RUNNING"
    /\ \E code \in ReturnCodes :
        /\ toxf' = [toxf EXCEPT ![j] =
                        [state |-> "FINISHED", code |-> code, raised |-> FALSE]]
        /\ result' = IF pc[j] = "done"
                     THEN [result EXCEPT ![j] =
                             <<[result[j][1] EXCEPT
                                  !.status_code = PyInt(code),
                                  !.status = IF code = 0 THEN "PASSED" ELSE "FAILED"]>>]
                     ELSE result
    /\ UNCHANGED <<Params, now, submitted, pc, frame, locked, Ghosts,
                   MainVars, lock_owner, exception>>
ToxFinish(j) ==
    /\ toxf[j].state = "RUNNING"
    /\ \/ \E code \in ReturnCodes :
            toxf' = [toxf EXCEPT ![j] =
                        [state |-> "FINISHED", code |-> code, raised |-> FALSE]]
       \/ toxf' = [toxf EXCEPT ![j] =
                        [state |-> "FINISHED", code |-> 0, raised |-> TRUE]]
    /\ UNCHANGED <<Params, now, submitted, pc, frame, locked, result, Ghosts,
                   MainVars,
                   lock_owner, exception>>

\* f.result returns or re-raises what run_tox raised; classification
ToxResult(j) ==
    /\ pc[j] = "tox_wait"
    /\ toxf[j].state = "FINISHED"
    /\ Return(j, IF toxf[j].raised
                 THEN Classify(j, PyError, <<"traceback">>)
                 ELSE Classify(j, PyInt(toxf[j].code), <<"tox output">>))
    /\ UNCHANGED <<Params, now, submitted, locked, toxf, Ghosts, MainVars,
                   lock_owner, exception>>

\* f.result raises TimeoutError: the wait is over and run_tox has not finished
ToxTimeout_Early(j) ==
    /\ pc[j] = "tox_wait"
    /\ toxf[j].state \in {"PENDING", "RUNNING"}
    /\ toxf' = [toxf EXCEPT ![j] = cancel(@)]
    /\ timed_out' = timed_out \cup {j}
    /\ Return(j, Classify(j, PyInt(1), <<"tox run timed out">>))
    /\ UNCHANGED <<Params, now, submitted, locked, skip_status, index_sdist,
                   downloads, tox_runs, MainVars,
                   lock_owner, exception>>
ToxTimeout(j) ==
    /\ pc[j] = "tox_wait"
    /\ toxf[j].state \in {"PENDING", "RUNNING"}
    /\ now >= frame[j].deadline
    /\ toxf' = [toxf EXCEPT ![j] = cancel(@)]
    /\ timed_out' = timed_out \cup {j}
    /\ Return(j, Classify(j, PyInt(1), <<"tox run timed out">>))
    /\ UNCHANGED <<Params, now, submitted, locked, skip_status, index_sdist,
                   downloads, tox_runs, MainVars,
                   lock_owner, exception>>

\* ---- the clock ----
Tick ==
    /\ now < MaxTicks * Timeout
    /\ \E j \in Jobs : InFlight(j)
    /\ now' = now + Timeout
    /\ UNCHANGED <<Params, submitted, pc, frame, locked, toxf, result, Ghosts,
                   MainVars,
                   lock_owner, exception>>

\* ---- main: the as_completed loop ----
\* test_results[(name, version)] = status_code, output
Retain(tr, r) ==
    [k \in DOMAIN tr \cup {<<r.name, r.version>>} |->
        IF k = <<r.name, r.version>>
        THEN [status_code |-> r.status_code, output |-> r.output]
        ELSE tr[k]]

\* as_completed yields a finished future and f.result() returns its result
Consume_RunOnly(j) ==
    /\ mainpc = "as_completed"
    /\ j \notin consumed
    /\ pc[j] = "done"
    /\ consumed' = consumed \cup {j}
    /\ test_results' = IF result[j][1].status \notin {"SKIPPED", "NO SOURCE"}
                       THEN Retain(test_results, result[j][1])
                       ELSE test_results
    /\ mainpc' = IF consumed' = Jobs THEN "shutdown" ELSE "as_completed"
    /\ UNCHANGED <<Params, now, submitted, pc, frame, locked, toxf, result,
                   Ghosts, Exit, exception, lock_owner, summary>>
Consume(j) ==
    /\ mainpc = "as_completed"
    /\ j \notin consumed
    /\ pc[j] = "done"
    /\ consumed' = consumed \cup {j}
    /\ test_results' = IF result[j][1].status # "SKIPPED"
                       THEN Retain(test_results, result[j][1])
                       ELSE test_results
    /\ mainpc' = IF consumed' = Jobs THEN "shutdown" ELSE "as_completed"
    /\ UNCHANGED <<Params, now, submitted, pc, frame, locked, toxf, result,
                   Ghosts, Exit, exception, lock_owner, summary>>

\* as_completed yields a future that holds an exception: f.result() raises it
\* and main leaves the loop
ConsumeRaises(j) ==
    /\ mainpc = "as_completed"
    /\ j \notin consumed
    /\ pc[j] = "raised"
    /\ consumed' = consumed \cup {j}
    /\ mainpc' = "aborting"
    /\ UNCHANGED <<Params, now, submitted, pc, frame, locked, toxf, result,
                   Ghosts, Exit, exception, lock_owner, test_results, summary>>

\* leaving the with block: executor.shutdown(wait=True) returns once the
\* pool's workers have run every submitted job
Shutdown_NoWait ==
    /\ mainpc \in {"shutdown", "aborting"}
    /\ mainpc' = IF mainpc = "shutdown" THEN "summary" ELSE "crashed"
    /\ UNCHANGED <<Params, now, submitted, pc, frame, locked, toxf, result,
                   Ghosts, Exit, exception, lock_owner, consumed, test_results,
                   summary>>
Shutdown ==
    /\ mainpc \in {"shutdown", "aborting"}
    /\ \A j \in Jobs : pc[j] \in {"done", "raised"}
    /\ mainpc' = IF mainpc = "shutdown" THEN "summary" ELSE "crashed"
    /\ UNCHANGED <<Params, now, submitted, pc, frame, locked, toxf, result,
                   Ghosts, Exit, exception, lock_owner, consumed, test_results,
                   summary>>

\* ---- main: the summary and the report ----
KeyLess_VersionFirst(a, b) == a[2] < b[2] \/ (a[2] = b[2] /\ a[1] < b[1])
KeyLess(a, b) == a[1] < b[1] \/ (a[1] = b[1] /\ a[2] < b[2])

\* sorted(test_results)
RECURSIVE sorted(_)
sorted(S) ==
    IF S = {} THEN <<>>
    ELSE LET m == CHOOSE a \in S : \A b \in S \ {a} : KeyLess(a, b)
         IN  <<m>> \o sorted(S \ {m})

\* lines 226-244: one report entry per key of test_results
Report(tr) ==
    LET keys == sorted(DOMAIN tr)
    IN  [i \in 1..Len(keys) |->
            [name |-> keys[i][1], version |-> keys[i][2],
             status |-> IF IsZero(tr[keys[i]].status_code) THEN "ok" ELSE "fail",
             output |-> tr[keys[i]].output]]

Summary_Swapped ==
    /\ mainpc = "summary"
    /\ summary' = <<[Skipped |-> Cardinality(DOMAIN test_results),
                     Run |-> Len(plugins) - Cardinality(DOMAIN test_results),
                     results |-> Report(test_results)]>>
    /\ mainpc' = "post"
    /\ UNCHANGED <<Params, now, submitted, pc, frame, locked, toxf, result,
                   Ghosts, Exit, exception, lock_owner, consumed, test_results>>
Summary ==
    /\ mainpc = "summary"
    /\ summary' = <<[Skipped |-> Len(plugins) - Cardinality(DOMAIN test_results),
                     Run |-> Cardinality(DOMAIN test_results),
                     results |-> Report(test_results)]>>
    /\ mainpc' = "post"
    /\ UNCHANGED <<Params, now, submitted, pc, frame, locked, toxf, result,
                   Ghosts, Exit, exception, lock_owner, consumed, test_results>>

\* lines 245-263: post the report when a site is configured; main returns 1
\* when the response is not 200, and sys.exit(main() or 0) ends the process
Post_AlwaysZero ==
    /\ mainpc = "post"
    /\ IF site
       THEN \E status_code \in PostCodes : post_status' = status_code
       ELSE UNCHANGED post_status
    /\ exit_code' = <<0>>
    /\ mainpc' = "exited"
    /\ UNCHANGED <<Params, now, submitted, pc, frame, locked, toxf, result,
                   Ghosts, exception, lock_owner, consumed, test_results,
                   summary>>
Post ==
    /\ mainpc = "post"
    /\ IF site
       THEN \E status_code \in PostCodes :
               /\ post_status' = status_code
               /\ exit_code' = IF status_code # 200 THEN <<1>> ELSE <<0>>
       ELSE /\ exit_code' = <<0>>
            /\ UNCHANGED post_status
    /\ mainpc' = "exited"
    /\ UNCHANGED <<Params, now, submitted, pc, frame, locked, toxf, result,
                   Ghosts, exception, lock_owner, consumed, test_results,
                   summary>>

\* requests.post raises: the exception leaves main
PostRaises ==
    /\ mainpc = "post"
    /\ site
    /\ mainpc' = "post_raised"
    /\ UNCHANGED <<Params, now, submitted, pc, frame, locked, toxf, result,
                   Ghosts, Exit, exception, lock_owner, consumed, test_results,
                   summary>>

Next ==
    \/ Submit
    \/ \E j \in Jobs : Start(j)
    \/ \E j \in Jobs : SkipCheck(j)
    \/ \E j \in Jobs : QueryIndex(j)
    \/ \E j \in Jobs : AcquireLock(j)
    \/ \E j \in Jobs : Urlretrieve(j)
    \/ \E j \in Jobs : Extract(j)
    \/ \E j \in Jobs : PipelineRaises(j)
    \/ \E j \in Jobs : ToxStart(j)
    \/ \E j \in Jobs : ToxFinish(j)
    \/ \E j \in Jobs : ToxResult(j)
    \/ \E j \in Jobs : ToxTimeout(j)
    \/ Tick
    \/ \E j \in Jobs : Consume(j)
    \/ \E j \in Jobs : ConsumeRaises(j)
    \/ Shutdown
    \/ Summary
    \/ Post
    \/ PostRaises

Spec == Init /\ [][Next]_vars

\* the threads of the pool, the inner run_tox threads and main are scheduled,
\* and every external call ends: some enabled step is eventually taken
FairSpec == Spec /\ WF_vars(Next)

\* ---- properties ----
Key(j) == <<plugins[j][1], plugins[j][2]>>
Outcome(j) == result[j][1]
HasOutcome(j) == pc[j] = "done"
RunEnded == mainpc \in {"post", "exited", "post_raised", "crashed"}
\* outcomes the main loop has received
Received == {j \in consumed : HasOutcome(j)}

\* C1: when the run has ended, every submitted plugin has exactly one outcome
\* and the main loop has received it: as many outcomes as plugins.
C1_OneOutcomePerPlugin ==
    RunEnded => /\ Cardinality(Received) = Len(plugins)
                /\ \A j \in Jobs : Len(result[j]) = 1

\* C2: no failure of a job's pipeline escapes as an exception: no job's future
\* holds an exception and the main loop is never aborted by one.
C2_FailuresBecomeOutcomes ==
    /\ \A j \in Jobs : pc[j] # "raised"
    /\ mainpc \notin {"aborting", "crashed"}

\* C3: at most one job is inside urlretrieve.
C3_DownloadsNeverOverlap ==
    Cardinality({j \in Jobs : pc[j] = "urlretrieve"}) <= 1

\* one job downloads while another waits for the lock
C3_Witness ==
    \E i, j \in Jobs : pc[i] = "urlretrieve" /\ pc[j] = "lock_wait"

\* C4: when no skip check, index query, download or unpack raises, every job
\* eventually completes with an outcome the main loop receives; and main
\* leaves the pool's with block only when no submitted job is queued or running.
AllReceived == mainpc = "post" /\ Received = Jobs
SomeCallRaised == \E j \in Jobs : pc[j] = "raised"
PoolIdle == \A j \in Jobs : pc[j] \in {"done", "raised"}
C4_EveryJobYieldsOutcome ==
    /\ [](mainpc \in {"summary", "post", "exited", "post_raised", "crashed"}
          => PoolIdle)
    /\ <>(AllReceived \/ SomeCallRaised)

\* a run with more plugins than workers, one of them timed out, all received
C4_Witness ==
    /\ AllReceived
    /\ Len(plugins) > max_workers
    /\ timed_out # {}

\* C5: a skip check answered 200 means no download, no run_tox and the
\* outcome SKIPPED.
C5_SkipHitDoesNothing ==
    \A j \in Jobs :
        skip_status[j] = 200 =>
            /\ downloads[j] = 0
            /\ tox_runs[j] = 0
            /\ HasOutcome(j)
            /\ Outcome(j).status = "SKIPPED"

\* a skipped job whose outcome main has received
C5_Witness ==
    \E j \in Jobs : skip_status[j] = 200 /\ j \in consumed /\ mainpc = "post"

\* C6: a job whose wait for run_tox timed out is FAILED with status code 1,
\* its output contains "timed out" and its elapsed time is at least the timeout.
C6_TimeoutIsFailed ==
    \A j \in timed_out :
        /\ HasOutcome(j)
        /\ Outcome(j).status = "FAILED"
        /\ Outcome(j).status_code = PyInt(1)
        /\ \E i \in DOMAIN Outcome(j).output :
              Outcome(j).output[i] = "tox run timed out"
        /\ Outcome(j).elapsed >= Timeout

\* a job that started after the clock had advanced has timed out
C6_Witness ==
    \E j \in timed_out : Outcome(j).elapsed >= Timeout /\ now > Outcome(j).elapsed

\* C7: once a job is classified as timed out its run_tox invocation is no
\* longer running.
C7_TimedOutRunIsTerminated ==
    \A j \in timed_out : toxf[j].state # "RUNNING"

\* C8: when run_tox raised (and the wait did not time out) the outcome has
\* status ERROR, status code 'error' and the traceback in its output.
C8_ExceptionIsError ==
    \A j \in Jobs :
        (HasOutcome(j) /\ toxf[j].raised /\ j \notin timed_out) =>
            /\ Outcome(j).status = "ERROR"
            /\ Outcome(j).status_code = PyError
            /\ Outcome(j).output[1] = "traceback"

\* C9: when the index returned no sdist, the outcome is NO SOURCE with status
\* code 1 and the job made no download and no run_tox call.
C9_NoSdistIsNoSource ==
    \A j \in Jobs :
        index_sdist[j] \in {"empty", "others"} =>
            /\ HasOutcome(j)
            /\ Outcome(j).status = "NO SOURCE"
            /\ Outcome(j).status_code = PyInt(1)
            /\ downloads[j] = 0
            /\ tox_runs[j] = 0

\* the index returned artifacts of other types only
C9_Witness ==
    \E j \in Jobs : index_sdist[j] = "others" /\ j \in consumed

\* C10 as stated: a NO SOURCE plugin has no report entry and is not counted
\* by the Run counter.
NoSource == {j \in Jobs : HasOutcome(j) /\ Outcome(j).status = "NO SOURCE"}
Tested == {j \in Jobs : HasOutcome(j) /\ Outcome(j).status \in {"PASSED", "FAILED"}}
Entries(k) ==
    {i \in DOMAIN summary[1].results :
        <<summary[1].results[i].name, summary[1].results[i].version>> = k}
C10_NoSourceExcluded ==
    summary # <<>> =>
        /\ \A j \in NoSource : Entries(Key(j)) = {}
        /\ summary[1].Run = Cardinality({Key(j) : j \in Tested})

\* C10 amended: a NO SOURCE plugin is not excluded.  The report has exactly
\* one entry for its (name, version), with status "fail" and its output when no
\* other plugin of the index has the same (name, version); Run counts the
\* distinct (name, version) of the outcomes that are not SKIPPED, NO SOURCE
\* included, and Skipped is the number of plugins minus Run.
C10_NoSourceReported ==
    summary # <<>> =>
        /\ \A j \in NoSource :
            /\ Cardinality(Entries(Key(j))) = 1
            /\ (\A i \in Jobs \ {j} : Key(i) # Key(j)) =>
                  \A e \in Entries(Key(j)) :
                      /\ summary[1].results[e].status = "fail"
                      /\ summary[1].results[e].output = <<"No sdist found">>
        /\ summary[1].Run = Cardinality({Key(j) : j \in Tested \cup NoSource})
        /\ summary[1].Skipped = Len(plugins) - summary[1].Run

\* the summary of a run with a NO SOURCE plugin and a tested one
C10_Witness ==
    /\ summary # <<>>
    /\ NoSource # {}
    /\ Tested # {}

\* ---- the report, the labels and the exit code ----
Results == summary[1].results
EntryKey(i) == <<Results[i].name, Results[i].version>>
\* (name, version) tuples compare by name, then by version
TupleLess(a, b) == a[1] < b[1] \/ (a[1] = b[1] /\ a[2] < b[2])
Ascending == \A i, k \in DOMAIN Results : i < k => TupleLess(EntryKey(i), EntryKey(k))
Reported == {j \in Jobs : HasOutcome(j) /\ Outcome(j).status # "SKIPPED"}
StatusOf(status_code) == IF IsZero(status_code) THEN "ok" ELSE "fail"

Completed ==
    {j \in Jobs : /\ HasOutcome(j)
                  /\ toxf[j].state = "FINISHED"
                  /\ ~toxf[j].raised
                  /\ j \notin timed_out}
C12_LabelMatchesCode ==
    \A j \in Completed :
        LET o == Outcome(j) IN
        /\ o.status_code = PyInt(toxf[j].code)
        /\ o.status \in {"PASSED", "FAILED"}
        /\ o.status = "PASSED" <=> (o.status_code.type = "int" /\ o.status_code.val = 0)
        /\ o.status = "FAILED" <=> (o.status_code.type = "int" /\ o.status_code.val # 0)

\* one completed run passed and another failed
C12_Witness ==
    \E i, j \in Completed :
        Outcome(i).status = "PASSED" /\ Outcome(j).status = "FAILED"

\* C13: once main has returned, the exit code is 0 when nothing was posted (no
\* site) or the response was 200, and 1 when the post was answered with another
\* status; in that case the summary with the whole sorted report was printed
\* before.
C13_ExitCode ==
    mainpc = "exited" =>
        /\ ~site => (post_status = 0 /\ exit_code = <<0>>)
        /\ post_status = 200 => exit_code = <<0>>
        /\ (site /\ post_status # 200) =>
              /\ exit_code = <<1>>
              /\ summary # <<>>
              /\ summary[1].Run = Len(Results)
              /\ Ascending
              /\ {EntryKey(i) : i \in DOMAIN Results} = DOMAIN test_results

\* a failed submission of a report with an entry
C13_Witness ==
    /\ mainpc = "exited"
    /\ post_status = 500
    /\ exit_code = <<1>>
    /\ Len(Results) >= 1

\* ---- directories, calls, the gate, the counters ----
\* C14: no two jobs write into the same directory at the same time.
C14_DirectoriesNotShared ==
    \A i, j \in Jobs : i # j => WriteDirs(i) \cap WriteDirs(j) = {}

\* C15 as stated: a job with an outcome made no download and no run_tox call
\* when the skip check answered 200, and exactly one of each otherwise.
C15_ExactlyOneEach ==
    \A j \in Jobs :
        HasOutcome(j) =>
            IF skip_status[j] = 200
            THEN downloads[j] = 0 /\ tox_runs[j] = 0
            ELSE downloads[j] = 1 /\ tox_runs[j] = 1

\* C15 amended: a job makes at most one download call and at most one run_tox
\* call; a job whose outcome is SKIPPED or NO SOURCE made none of either; a
\* job whose outcome is PASSED or FAILED made exactly one download call, and
\* exactly one run_tox call unless its wait timed out.
C15_CallsPerJob ==
    \A j \in Jobs :
        /\ downloads[j] <= 1
        /\ tox_runs[j] <= 1
        /\ HasOutcome(j) =>
            IF Outcome(j).status \in {"SKIPPED", "NO SOURCE"}
            THEN downloads[j] = 0 /\ tox_runs[j] = 0
            ELSE /\ downloads[j] = 1
                 /\ j \notin timed_out => tox_runs[j] = 1

\* a NO SOURCE job next to a job that ran tox
C15_Witness ==
    \E i, j \in Jobs :
        /\ HasOutcome(i) /\ Outcome(i).status = "NO SOURCE"
        /\ HasOutcome(j) /\ Outcome(j).status = "PASSED"

\* C16: the gate is released on every exit path: it is held exactly while some
\* job owns it, no job whose future is finished owns it, and a job whose
\* urlretrieve raised has left it free for the others.
C16_GateReleased ==
    /\ locked <=> lock_owner # 0
    /\ \A j \in Jobs :
        /\ pc[j] \in {"done", "raised"} => lock_owner # j
        /\ exception[j] = "urlretrieve" => lock_owner # j

\* a job downloads after the download of another job raised
C16_Witness ==
    \E i, j \in Jobs :
        /\ exception[i] = "urlretrieve"
        /\ pc[j] = "urlretrieve"
        /\ lock_owner = j

\* C17: the gate is held only around urlretrieve: its owner is inside the
\* call, and a job in any other step does not hold it.
C17_GateOnlyAroundDownload ==
    /\ locked => \E j \in Jobs : pc[j] = "urlretrieve"
    /\ \A j \in Jobs :
        pc[j] \in {"skip_check", "query", "lock_wait", "extract", "tox_wait"}
            => lock_owner # j

\* one job downloads while run_tox of another job is running
C17_Witness ==
    \E i, j \in Jobs :
        /\ pc[i] = "urlretrieve"
        /\ pc[j] = "tox_wait"
        /\ toxf[j].state = "RUNNING"

\* C18: the run_tox invocations running at the same time never exceed the
\* pool size.
C18_RunningToxWithinPool ==
    Cardinality({j \in Jobs : toxf[j].state = "RUNNING"}) <= max_workers

\* C19 as stated: Skipped is the number of SKIPPED outcomes, Run the number of
\* the other outcomes, and they add up to the number of plugins.
SkippedJobs == {j \in Jobs : HasOutcome(j) /\ Outcome(j).status = "SKIPPED"}
C19_CountersMatchOutcomes ==
    summary # <<>> =>
        /\ summary[1].Skipped = Cardinality(SkippedJobs)
        /\ summary[1].Run = Cardinality(Reported)
        /\ summary[1].Skipped + summary[1].Run = Len(plugins)

\* C19 amended: Run is the number of distinct (name, version) among the
\* outcomes that are not SKIPPED, Skipped is the number of plugins minus Run;
\* they are the numbers of not SKIPPED and of SKIPPED outcomes when no two
\* outcomes that are not SKIPPED have the same (name, version).
C19_Counters ==
    summary # <<>> =>
        /\ summary[1].Run = Cardinality({Key(j) : j \in Reported})
        /\ summary[1].Skipped + summary[1].Run = Len(plugins)
        /\ (\A i, j \in Reported : Key(i) = Key(j) => i = j) =>
              /\ summary[1].Skipped = Cardinality(SkippedJobs)
              /\ summary[1].Run = Cardinality(Reported)

\* the summary of an index that lists one (name, version) twice, both run
C19_Witness ==
    /\ summary # <<>>
    /\ Len(plugins) = 2
    /\ Key(1) = Key(2)
    /\ Reported = {1, 2}

\* C20: an outcome, once produced, never changes; and when the run_tox call
\* of a timed-out job ends later, the retained results and the summary stay
\* as they are.
C20_OutcomeImmutable ==
    [][\A j \in Jobs :
          /\ result[j] # <<>> => result'[j] = result[j]
          /\ (j \in timed_out /\ toxf'[j] # toxf[j]) =>
                (test_results' = test_results /\ summary' = summary)]_vars

\* the run_tox call of a timed-out job has ended after main received the outcome
C20_Witness ==
    \E j \in timed_out :
        /\ toxf[j].state = "FINISHED"
        /\ j \in consumed
        /\ Key(j) \in DOMAIN test_results

====
